---- MODULE Spec2Model ----
(***************************************************************************)
(* Model of cocotbext/i2c/i2c_master.py (class I2cMaster).                 *)
(*                                                                         *)
(* The driver is one cooperative task.  Every action below is one segment  *)
(* of coroutine code: it starts where the task is resumed (a Timer that    *)
(* expired, a RisingEdge that fired, a callee that returned) and runs to   *)
(* the next await.  The peer acts only while the task is suspended.        *)
(*                                                                         *)
(* Control state is one program counter per layer of the call chain        *)
(*   write/read -> send_byte/recv_byte -> send_bit/recv_bit                *)
(*              -> send_start/send_stop                                    *)
(* named after the source line of the await the task is suspended in.      *)
(***************************************************************************)
EXTENDS Integers, Sequences, FiniteSets, TLC

\* ------------------------------------------------------------- bounds
MaxRetries == 2
MaxData == 2
MaxCount == 2

Addrs == {16, 80}
DataBytes == {1, 255}
ByteVals == 0..255

RECURSIVE SeqsUpTo(_, _)
SeqsUpTo(S, n) ==
    IF n = 0 THEN {<<>>}
    ELSE LET shorter == SeqsUpTo(S, n - 1)
         IN  shorter \cup {Append(s, x) : s \in {t \in shorter : Len(t) = n - 1}, x \in S}

Min(a, b) == IF a < b THEN a ELSE b

\* bit n of the integer b (Python: bool(b & (1 << n)))
Bit(b, n) == (b \div (2 ^ n)) % 2

\* a value returned to the caller of a public coroutine
RetNone == [kind |-> "None", val |-> <<>>]
RetBit(v) == [kind |-> "bit", val |-> <<v>>]
RetData(s) == [kind |-> "data", val |-> s]

VARIABLES
    \* constructor arguments (lines 34-41)
    retries, has_sda_o, has_scl_o,
    \* how the test bench wires the sense lines: TRUE when the sense line is
    \* the wired AND of the master's and the peer's drive, FALSE when it
    \* carries the peer's drive alone
    wired,
    \* the master's drive: on the separate drive line, or on the single line
    sda_o, scl_o, sda_line, scl_line,
    \* the peer's drive (1 = released)
    peer_sda, peer_scl,
    \* condition generator
    bus_active, cpc, nStart, nStop, stopped, ev,
    \* bit transceiver
    bfn, bpc, bb, stretched,
    \* byte transceiver
    yfn, ypc, yi, yb, yack, yret, samples, hiLog,
    \* transaction orchestrator and the public call in flight
    op, tpc, addr, data, count, retry_cnt, s_break, k, rdata, ret, outcome,
    nAddr, nAddrAck, nData, nDelay, succeeded, rxlog, ackLog, txlog, nNack

cfgVars == <<retries, has_sda_o, has_scl_o, wired>>

\* the history counters saturate at retries + 2, above every value that is
\* stated about them
Inc(n) == IF n < retries + 2 THEN n + 1 ELSE n
sdaVars == <<sda_o, sda_line>>
sclVars == <<scl_o, scl_line>>
lineVars == <<sda_o, sda_line, scl_o, scl_line>>
peerVars == <<peer_sda, peer_scl>>
condVars == <<bus_active, cpc, nStart, nStop, stopped, ev>>
bitVars == <<bfn, bpc, bb, stretched>>
byteVars == <<yfn, ypc, yi, yb, yack, yret>>
byteLog == <<samples, hiLog>>
argVars == <<op, addr, data, count>>
txLocals == <<retry_cnt, s_break, k, rdata,
              nAddr, nAddrAck, nData, nDelay, succeeded, rxlog, ackLog, txlog,
              nNack>>
txVars == <<tpc, ret, outcome, txLocals>>
vars == <<cfgVars, lineVars, peerVars, condVars, bitVars, byteVars, byteLog,
          argVars, txVars>>

\* ------------------------------------------------------------- lines
SdaDrive == IF has_sda_o THEN sda_o ELSE sda_line
SclDrive == IF has_scl_o THEN scl_o ELSE scl_line

\* self.sda.value / self.scl.value
SenseOf(separate, drive, peer) ==
    IF separate /\ ~wired THEN peer ELSE Min(drive, peer)
SdaSense == SenseOf(has_sda_o, SdaDrive, peer_sda)
SclSense == SenseOf(has_scl_o, SclDrive, peer_scl)

\* RisingEdge(self.scl) can fire: the line is sensed low and is sensed high
\* once the peer lets go of it
SclCanRise == SclSense = 0 /\ SenseOf(has_scl_o, SclDrive, 1) = 1

_set_sda(val) ==
    IF has_sda_o THEN sda_o' = val /\ sda_line' = sda_line
                 ELSE sda_line' = val /\ sda_o' = sda_o

_set_scl(val) ==
    IF has_scl_o THEN scl_o' = val /\ scl_line' = scl_line
                 ELSE scl_line' = val /\ scl_o' = scl_o

\* ------------------------------------------------------------- suspension
CondTimers == {"s82", "s86", "s89", "s91", "p100", "p104", "p106"}
CondEdges == {"s85", "p103"}
BitTimers == {"half", "bit_t", "low"}
BitEdges == {"stretch", "rising"}
TxTimers == {"w166", "w172", "w181", "w187", "r203", "r209"}

\* the task is suspended in RisingEdge(self.scl)
AtEdge == cpc \in CondEdges \/ bpc \in BitEdges

\* the task is suspended (or no call is in flight): simulation time passes
Suspended ==
    \/ tpc = "idle"
    \/ cpc \in CondTimers \cup CondEdges
    \/ bpc \in BitTimers \cup BitEdges
    \/ tpc \in TxTimers

\* ------------------------------------------------------------- send_start
\* ev is the record of what send_start / send_stop did since the test called
\* it: the bus state it found, each drive of a line, each wait; it is kept
\* only for the test's own calls of send_start and send_stop
Log(e) == IF op \in {"start", "stop"} THEN ev \o e ELSE ev

\* mutant: no repeated start, the standard sequence is always performed
send_start_entry_plain ==
    /\ _set_sda(0)
    /\ cpc' = "s89"
    /\ ev' = Log(<<IF bus_active THEN "active" ELSE "inactive", "sda0">>)
    /\ nStart' = Inc(nStart)
    /\ stopped' = FALSE
    /\ UNCHANGED <<sclVars, bus_active, nStop>>

\* lines 79-82 and 88-89: the code up to the first await
send_start_entry ==
    /\ IF bus_active
       THEN /\ _set_sda(1)
            /\ cpc' = "s82"
            /\ ev' = Log(<<"active", "sda1">>)
            /\ UNCHANGED <<nStart, stopped>>
       ELSE /\ _set_sda(0)
            /\ cpc' = "s89"
            /\ ev' = Log(<<"inactive", "sda0">>)
            /\ nStart' = Inc(nStart)
            /\ stopped' = FALSE
    /\ UNCHANGED <<sclVars, bus_active, nStop>>

\* lines 82-86: half bit over, release SCL, wait until it is sensed high
send_start_release ==
    /\ cpc = "s82"
    /\ UNCHANGED peerVars
    /\ _set_scl(1)
    /\ IF SenseOf(has_scl_o, 1, peer_scl) = 1
       THEN cpc' = "s86" /\ ev' = Log(<<"half", "scl1", "high">>)
       ELSE cpc' = "s85" /\ ev' = Log(<<"half", "scl1">>)
    /\ UNCHANGED <<sdaVars, bus_active, nStart, nStop, stopped>>
    /\ UNCHANGED <<cfgVars, bitVars, byteVars, byteLog, argVars, txVars>>

\* lines 84-86: RisingEdge(self.scl) fires, the loop test is taken again
send_start_rising ==
    /\ cpc = "s85"
    /\ SclCanRise
    /\ peer_scl' = 1 /\ peer_sda' = peer_sda
    /\ UNCHANGED lineVars
    /\ cpc' = "s86" /\ ev' = Log(<<"high">>)
    /\ UNCHANGED <<bus_active, nStart, nStop, stopped>>
    /\ UNCHANGED <<cfgVars, bitVars, byteVars, byteLog, argVars, txVars>>

\* lines 86-89: half bit over, SDA falls (the START condition)
send_start_fall ==
    /\ cpc = "s86"
    /\ _set_sda(0)
    /\ cpc' = "s89" /\ ev' = Log(<<"half", "sda0">>)
    /\ nStart' = Inc(nStart)
    /\ stopped' = FALSE
    /\ UNCHANGED <<peerVars, sclVars, bus_active, nStop>>
    /\ UNCHANGED <<cfgVars, bitVars, byteVars, byteLog, argVars, txVars>>

\* lines 89-91: half bit over, SCL is driven low
send_start_low ==
    /\ cpc = "s89"
    /\ _set_scl(0)
    /\ cpc' = "s91" /\ ev' = Log(<<"half", "scl0">>)
    /\ UNCHANGED <<peerVars, sdaVars, bus_active, nStart, nStop, stopped>>
    /\ UNCHANGED <<cfgVars, bitVars, byteVars, byteLog, argVars, txVars>>

\* mutant: bus_active is not set
send_start_done_inactive ==
    /\ cpc = "s91"
    /\ cpc' = "idle" /\ ev' = Log(<<"half">>)
    /\ UNCHANGED <<peerVars, lineVars, bus_active, nStart, nStop, stopped>>
    /\ UNCHANGED <<cfgVars, bitVars, byteVars, byteLog, argVars, txVars>>

\* lines 91-93: half bit over, the bus is active, return
send_start_done ==
    /\ cpc = "s91"
    /\ bus_active' = TRUE
    /\ cpc' = "idle" /\ ev' = Log(<<"half">>)
    /\ UNCHANGED <<peerVars, lineVars, nStart, nStop, stopped>>
    /\ UNCHANGED <<cfgVars, bitVars, byteVars, byteLog, argVars, txVars>>

\* ------------------------------------------------------------- send_stop
\* mutant: no early return, the STOP sequence is always performed
send_stop_entry_always ==
    /\ _set_sda(0)
    /\ cpc' = "p100"
    /\ ev' = Log(<<IF bus_active THEN "active" ELSE "inactive", "sda0">>)
    /\ UNCHANGED <<sclVars, bus_active, nStart, nStop, stopped>>

\* lines 95-100: the code up to the first await, or the early return
send_stop_entry ==
    /\ IF ~bus_active
       THEN /\ cpc' = "idle"
            /\ ev' = Log(<<"inactive">>)
            /\ UNCHANGED sdaVars
       ELSE /\ _set_sda(0)
            /\ cpc' = "p100"
            /\ ev' = Log(<<"active", "sda0">>)
    /\ UNCHANGED <<sclVars, bus_active, nStart, nStop, stopped>>

\* lines 100-104: half bit over, release SCL, wait until it is sensed high
send_stop_release ==
    /\ cpc = "p100"
    /\ UNCHANGED peerVars
    /\ _set_scl(1)
    /\ IF SenseOf(has_scl_o, 1, peer_scl) = 1
       THEN cpc' = "p104" /\ ev' = Log(<<"half", "scl1", "high">>)
       ELSE cpc' = "p103" /\ ev' = Log(<<"half", "scl1">>)
    /\ UNCHANGED <<sdaVars, bus_active, nStart, nStop, stopped>>
    /\ UNCHANGED <<cfgVars, bitVars, byteVars, byteLog, argVars, txVars>>

\* lines 102-104: RisingEdge(self.scl) fires, the loop test is taken again
send_stop_rising ==
    /\ cpc = "p103"
    /\ SclCanRise
    /\ peer_scl' = 1 /\ peer_sda' = peer_sda
    /\ UNCHANGED lineVars
    /\ cpc' = "p104" /\ ev' = Log(<<"high">>)
    /\ UNCHANGED <<bus_active, nStart, nStop, stopped>>
    /\ UNCHANGED <<cfgVars, bitVars, byteVars, byteLog, argVars, txVars>>

\* mutant: SDA is not released at the end of the STOP sequence
send_stop_rise_held ==
    /\ cpc = "p104"
    /\ cpc' = "p106" /\ ev' = Log(<<"half", "sda1">>)
    /\ stopped' = TRUE
    /\ UNCHANGED <<peerVars, lineVars, bus_active, nStart, nStop>>
    /\ UNCHANGED <<cfgVars, bitVars, byteVars, byteLog, argVars, txVars>>

\* lines 104-106: half bit over, SDA rises (the STOP condition)
send_stop_rise ==
    /\ cpc = "p104"
    /\ _set_sda(1)
    /\ cpc' = "p106" /\ ev' = Log(<<"half", "sda1">>)
    /\ stopped' = TRUE
    /\ UNCHANGED <<peerVars, sclVars, bus_active, nStart, nStop>>
    /\ UNCHANGED <<cfgVars, bitVars, byteVars, byteLog, argVars, txVars>>

\* lines 106-108: half bit over, the bus is released, return
send_stop_done ==
    /\ cpc = "p106"
    /\ bus_active' = FALSE
    /\ nStop' = Inc(nStop)
    /\ cpc' = "idle" /\ ev' = Log(<<"half">>)
    /\ UNCHANGED <<peerVars, lineVars, nStart, stopped>>
    /\ UNCHANGED <<cfgVars, bitVars, byteVars, byteLog, argVars, txVars>>

\* the condition generator's part of Next
CondStep ==
    \/ send_start_release
    \/ send_start_rising
    \/ send_start_fall
    \/ send_start_low
    \/ send_start_done
    \/ send_stop_release
    \/ send_stop_rising
    \/ send_stop_rise
    \/ send_stop_done

\* ------------------------------------------------------------- send_bit
\* scl_o is None in scl_stretching (line 76): the AttributeError unwinds
\* every coroutine of the call in flight
AttributeError ==
    /\ tpc' = "idle" /\ outcome' = "raised" /\ ret' = RetNone
    /\ ypc' = "idle" /\ bpc' = "idle"
    /\ UNCHANGED <<sclVars, hiLog, stretched, txLocals, yfn, yi, yb, yack, yret>>

\* mutant: no clock stretching, SCL is released and the bit period counted
scl_stretching_none ==
    /\ _set_scl(1)
    /\ hiLog' = Append(hiLog, SdaDrive)
    /\ bpc' = "bit_t"
    /\ UNCHANGED <<stretched, byteVars, txVars>>

\* lines 73-77, SCL sensed low: drive scl_o low and wait for a rising edge
scl_stretching ==
    IF has_scl_o
    THEN /\ scl_o' = 0 /\ scl_line' = scl_line
         /\ bpc' = "stretch"
         /\ UNCHANGED <<hiLog, stretched, byteVars, txVars>>
    ELSE AttributeError

\* lines 117-120 (132-135): release SCL, loop until it is sensed high, then
\* the bit-period wait; peer is the peer's SCL drive at that time
scl_release(peer) ==
    /\ _set_scl(1)
    /\ hiLog' = Append(hiLog, SdaDrive)
    /\ bpc' = IF SenseOf(has_scl_o, 1, peer) = 1 THEN "bit_t" ELSE "rising"

\* mutant: no implicit start, the bit is sent whatever the bus state
send_bit_entry_nostart(b) ==
    /\ bfn' = "send_bit" /\ bb' = b /\ stretched' = FALSE
    /\ _set_sda(b) /\ bpc' = "half" /\ UNCHANGED <<sclVars, condVars>>

\* lines 110-115: the code up to the first await
send_bit_entry(b) ==
    /\ bfn' = "send_bit" /\ bb' = b /\ stretched' = FALSE
    /\ IF ~bus_active
       THEN send_start_entry /\ bpc' = "start"
       ELSE _set_sda(b) /\ bpc' = "half" /\ UNCHANGED <<sclVars, condVars>>

\* lines 112-115: the implicit send_start returned
send_bit_started ==
    /\ bfn = "send_bit" /\ bpc = "start" /\ cpc = "idle"
    /\ _set_sda(bb)
    /\ bpc' = "half"
    /\ UNCHANGED <<cfgVars, peerVars, sclVars, condVars, bfn, bb, stretched,
                   byteVars, byteLog, argVars, txVars>>

\* lines 115-120: half bit over, clock-stretch check, release SCL
send_bit_half ==
    /\ bfn = "send_bit" /\ bpc = "half"
    /\ UNCHANGED <<cfgVars, peerVars, sdaVars, condVars, bfn, bb, samples, argVars>>
    /\ IF SclSense = 0
       THEN scl_stretching
       ELSE scl_release(peer_scl) /\ UNCHANGED <<stretched, byteVars, txVars>>

\* lines 77 and 119: RisingEdge(self.scl) fires; after scl_stretching SCL is
\* released (117-120), in the loop the test is taken again
send_bit_rising ==
    /\ bfn = "send_bit" /\ bpc \in BitEdges
    /\ SclCanRise
    /\ peer_scl' = 1 /\ peer_sda' = peer_sda
    /\ stretched' = TRUE
    /\ IF bpc = "stretch"
       THEN scl_release(1)
       ELSE bpc' = "bit_t" /\ UNCHANGED <<sclVars, hiLog>>
    /\ UNCHANGED <<cfgVars, sdaVars, condVars, bfn, bb, samples, byteVars, argVars, txVars>>

\* mutant: the bit period is over but SCL is not driven low
send_bit_high_stays ==
    /\ bfn = "send_bit" /\ bpc = "bit_t"
    /\ bpc' = "low"
    /\ UNCHANGED <<cfgVars, peerVars, lineVars, condVars, bfn, bb, stretched,
                   byteVars, byteLog, argVars, txVars>>

\* lines 120-122: bit period over, SCL is driven low
send_bit_high ==
    /\ bfn = "send_bit" /\ bpc = "bit_t"
    /\ _set_scl(0)
    /\ bpc' = "low"
    /\ UNCHANGED <<cfgVars, peerVars, sdaVars, condVars, bfn, bb, stretched,
                   byteVars, byteLog, argVars, txVars>>

\* line 122: half bit over, return
send_bit_low ==
    /\ bfn = "send_bit" /\ bpc = "low"
    /\ bpc' = "idle"
    /\ UNCHANGED <<cfgVars, peerVars, lineVars, condVars, bfn, bb, stretched,
                   byteVars, byteLog, argVars, txVars>>

\* ------------------------------------------------------------- recv_bit
\* lines 124-129: the code up to the first await
recv_bit_entry ==
    /\ bfn' = "recv_bit" /\ bb' = 0 /\ stretched' = FALSE
    /\ IF ~bus_active
       THEN send_start_entry /\ bpc' = "start"
       ELSE _set_sda(1) /\ bpc' = "half" /\ UNCHANGED <<sclVars, condVars>>

\* lines 126-129: the implicit send_start returned
recv_bit_started ==
    /\ bfn = "recv_bit" /\ bpc = "start" /\ cpc = "idle"
    /\ _set_sda(1)
    /\ bpc' = "half"
    /\ UNCHANGED <<cfgVars, peerVars, sclVars, condVars, bfn, bb, stretched,
                   byteVars, byteLog, argVars, txVars>>

\* lines 129-135: half bit over, sample SDA, clock-stretch check, release SCL
recv_bit_half ==
    /\ bfn = "recv_bit" /\ bpc = "half"
    /\ bb' = SdaSense
    /\ samples' = Append(samples, SdaSense)
    /\ UNCHANGED <<cfgVars, peerVars, sdaVars, condVars, bfn, argVars>>
    /\ IF SclSense = 0
       THEN scl_stretching
       ELSE scl_release(peer_scl) /\ UNCHANGED <<stretched, byteVars, txVars>>

\* lines 77 and 134: RisingEdge(self.scl) fires
recv_bit_rising ==
    /\ bfn = "recv_bit" /\ bpc \in BitEdges
    /\ SclCanRise
    /\ peer_scl' = 1 /\ peer_sda' = peer_sda
    /\ stretched' = TRUE
    /\ IF bpc = "stretch"
       THEN scl_release(1)
       ELSE bpc' = "bit_t" /\ UNCHANGED <<sclVars, hiLog>>
    /\ UNCHANGED <<cfgVars, sdaVars, condVars, bfn, bb, samples, byteVars, argVars, txVars>>

\* lines 135-137: bit period over, SCL is driven low
recv_bit_high ==
    /\ bfn = "recv_bit" /\ bpc = "bit_t"
    /\ _set_scl(0)
    /\ bpc' = "low"
    /\ UNCHANGED <<cfgVars, peerVars, sdaVars, condVars, bfn, bb, stretched,
                   byteVars, byteLog, argVars, txVars>>

\* lines 137-139: half bit over, return b
recv_bit_low ==
    /\ bfn = "recv_bit" /\ bpc = "low"
    /\ bpc' = "idle"
    /\ UNCHANGED <<cfgVars, peerVars, lineVars, condVars, bfn, bb, stretched,
                   byteVars, byteLog, argVars, txVars>>

\* the bit transceiver's part of Next
BitStep ==
    \/ send_bit_started
    \/ send_bit_half
    \/ send_bit_rising
    \/ send_bit_high
    \/ send_bit_low
    \/ recv_bit_started
    \/ recv_bit_half
    \/ recv_bit_rising
    \/ recv_bit_high
    \/ recv_bit_low

\* ------------------------------------------------------------- send_byte
\* no bit is started: the layers below are left alone
bit_idle == UNCHANGED <<bitVars, lineVars, condVars>>

\* mutant: least significant bit first
send_byte_bit_lsb(b, i) == Bit(b, i)

\* line 143: bool(b & (1 << 7-i)), the bit sent in iteration i
send_byte_bit(b, i) == Bit(b, 7 - i)

\* lines 141-143: first iteration of the loop
send_byte_entry(b) ==
    /\ yfn' = "send_byte" /\ yb' = b /\ yi' = 0 /\ yack' = 0 /\ yret' = 0
    /\ ypc' = "bit"
    /\ samples' = <<>> /\ hiLog' = <<>>
    /\ send_bit_entry(send_byte_bit(b, 0))

\* lines 142-144: a bit is done; next data bit, then the acknowledge bit,
\* whose value is returned
send_byte_next ==
    /\ yfn = "send_byte" /\ ypc = "bit" /\ bpc = "idle"
    /\ IF yi < 7
       THEN /\ yi' = yi + 1
            /\ send_bit_entry(send_byte_bit(yb, yi + 1))
            /\ UNCHANGED <<ypc, yret>>
       ELSE IF yi = 7
       THEN /\ yi' = 8
            /\ recv_bit_entry
            /\ UNCHANGED <<ypc, yret>>
       ELSE /\ yret' = bb
            /\ ypc' = "idle"
            /\ bit_idle
            /\ UNCHANGED yi
    /\ UNCHANGED <<cfgVars, peerVars, yfn, yb, yack, byteLog, argVars, txVars>>

\* ------------------------------------------------------------- recv_byte
\* lines 146-149: first iteration of the loop
recv_byte_entry(ack) ==
    /\ yfn' = "recv_byte" /\ yb' = 0 /\ yi' = 0 /\ yack' = ack /\ yret' = 0
    /\ ypc' = "bit"
    /\ samples' = <<>> /\ hiLog' = <<>>
    /\ recv_bit_entry

\* mutant: the bit is or-ed in without the shift
recv_byte_shift_none(b, bit) == IF bit = 1 \/ b % 2 = 1 THEN b - (b % 2) + 1 ELSE b

\* line 149: (b << 1) | bit
recv_byte_shift(b, bit) == 2 * b + bit

\* lines 148-151: a bit is done; shift it in and take the next one, then
\* send the acknowledge bit, then return the byte
recv_byte_next ==
    /\ yfn = "recv_byte" /\ ypc = "bit" /\ bpc = "idle"
    /\ IF yi < 7
       THEN /\ yb' = recv_byte_shift(yb, bb)
            /\ yi' = yi + 1
            /\ recv_bit_entry
            /\ UNCHANGED <<ypc, yret>>
       ELSE IF yi = 7
       THEN /\ yb' = recv_byte_shift(yb, bb)
            /\ yi' = 8
            /\ send_bit_entry(yack)
            /\ UNCHANGED <<ypc, yret>>
       ELSE /\ yret' = yb
            /\ ypc' = "idle"
            /\ bit_idle
            /\ UNCHANGED <<yi, yb>>
    /\ UNCHANGED <<cfgVars, peerVars, yfn, yack, byteLog, argVars, txVars>>

\* the byte transceiver's part of Next
ByteStep ==
    \/ send_byte_next
    \/ recv_byte_next

\* ------------------------------------------------------------- calls
\* the layers below the caller are left alone
below_idle == UNCHANGED <<lineVars, condVars, bitVars, byteVars, byteLog>>
start_only == send_start_entry /\ UNCHANGED <<bitVars, byteVars, byteLog>>
\* mutant: a NACKed attempt is retried without a STOP
stop_only_skipped == below_idle
stop_only == send_stop_entry /\ UNCHANGED <<bitVars, byteVars, byteLog>>

\* the coroutine of the public call returns r
Return(r, how) == tpc' = "idle" /\ ret' = r /\ outcome' = how

\* the byte the eight sampled bits of samples spell, first bit first
RECURSIVE BitsValue(_)
BitsValue(bits) ==
    IF bits = <<>> THEN 0
    ELSE 2 * BitsValue(SubSeq(bits, 1, Len(bits) - 1)) + bits[Len(bits)]

\* the byte that send_byte put on SDA: the SDA drive in its first eight
\* SCL high phases
SentByte == BitsValue(SubSeq(hiLog, 1, 8))

\* the test has looked at the outcome of the call that returned: what is
\* recorded about the call, and the locals of its frames, are forgotten
TestDone ==
    /\ tpc = "idle" /\ outcome # "none"
    /\ op' = "none" /\ addr' = 0 /\ data' = <<>> /\ count' = 0
    /\ ret' = RetNone /\ outcome' = "none"
    /\ retry_cnt' = 0 /\ s_break' = FALSE /\ k' = 0 /\ rdata' = <<>>
    /\ nAddr' = 0 /\ nAddrAck' = 0 /\ nData' = 0 /\ nDelay' = 0
    /\ succeeded' = FALSE /\ rxlog' = <<>> /\ ackLog' = <<>> /\ txlog' = <<>>
    /\ nNack' = 0
    /\ nStart' = 0 /\ nStop' = 0 /\ stopped' = FALSE /\ ev' = <<>>
    /\ samples' = <<>> /\ hiLog' = <<>>
    /\ bfn' = "none" /\ bb' = 0 /\ stretched' = FALSE
    /\ yfn' = "none" /\ yi' = 0 /\ yb' = 0 /\ yack' = 0 /\ yret' = 0
    /\ UNCHANGED <<cfgVars, lineVars, peerVars, bus_active, cpc, bpc, ypc, tpc>>

\* the test calls a public coroutine of the idle driver
Call(o, a, d, c) ==
    /\ tpc = "idle" /\ outcome = "none"
    /\ op' = o /\ addr' = a /\ data' = d /\ count' = c
    /\ tpc' = "entry" /\ outcome' = "running"
    /\ UNCHANGED <<cfgVars, lineVars, peerVars, condVars, bitVars, byteVars, byteLog,
                   ret, txLocals>>

CallStart == Call("start", 0, <<>>, 0)
CallStop == Call("stop", 0, <<>>, 0)
CallWrite == \E a \in Addrs, d \in SeqsUpTo(DataBytes, MaxData) : Call("write", a, d, 0)
CallRead == \E a \in Addrs, c \in 0..MaxCount : Call("read", a, <<>>, c)
\* send_byte(b): b is kept in data; recv_byte(ack): ack is kept in count
CallSendByte(B) == \E b \in B : Call("send_byte", 0, <<b>>, 0)
CallRecvByte == \E a \in {0, 1} : Call("recv_byte", 0, <<>>, a)

\* ------------------------------------------------------------- start, stop
\* await send_start() from the test
start_entry ==
    /\ op = "start" /\ tpc = "entry"
    /\ start_only
    /\ tpc' = "wait"
    /\ UNCHANGED <<cfgVars, peerVars, argVars, ret, outcome, txLocals>>

\* await send_stop() from the test
stop_entry ==
    /\ op = "stop" /\ tpc = "entry"
    /\ stop_only
    /\ tpc' = "wait"
    /\ UNCHANGED <<cfgVars, peerVars, argVars, ret, outcome, txLocals>>

\* send_start / send_stop returned to the test
cond_return ==
    /\ op \in {"start", "stop"} /\ tpc = "wait" /\ cpc = "idle"
    /\ Return(RetNone, "done")
    /\ below_idle
    /\ UNCHANGED <<cfgVars, peerVars, argVars, txLocals>>

\* await send_byte(b) / recv_byte(ack) from the test
byte_entry ==
    /\ op \in {"send_byte", "recv_byte"} /\ tpc = "entry"
    /\ IF op = "send_byte" THEN send_byte_entry(data[1]) ELSE recv_byte_entry(count)
    /\ tpc' = "wait"
    /\ UNCHANGED <<cfgVars, peerVars, argVars, ret, outcome, txLocals>>

\* send_byte / recv_byte returned to the test
byte_return ==
    /\ op \in {"send_byte", "recv_byte"} /\ tpc = "wait" /\ ypc = "idle"
    /\ Return(IF op = "send_byte" THEN RetBit(yret) ELSE RetData(<<yret>>), "done")
    /\ below_idle
    /\ UNCHANGED <<cfgVars, peerVars, argVars, txLocals>>

\* ------------------------------------------------------------- write
\* mutant: the retry budget is taken to be spent one attempt early
Exhausted_early(rc) == rc + 1 = retries

\* lines 164, 179, 201: retry_cnt == self.retries
Exhausted(rc) == rc = retries

\* mutant: the read/write bit is put in front of the address, not behind it
addr_byte_rw_first(a, rw) == 128 * rw + a

\* lines 161, 198: (addr << 1) | 0 and (addr << 1) | 1, for 7-bit addresses
addr_byte(a, rw) == 2 * a + rw

\* lines 158-160: the loop test, then send_start
write_loop(rc) ==
    IF rc # retries + 1
    THEN send_start_entry /\ tpc' = "w160" /\ UNCHANGED <<ret, outcome>>
    ELSE Return(RetNone, "fell") /\ UNCHANGED <<lineVars, condVars>>

\* lines 190-191, then 158-160: leave the loop unless s_break is set
write_tail(sb, rc) ==
    IF sb = FALSE
    THEN Return(RetNone, "done") /\ UNCHANGED <<lineVars, condVars>>
    ELSE write_loop(rc)

\* mutant: a retry resumes at the data byte that was NACKed
data_start_resume(kprev) == IF kprev = 0 THEN 1 ELSE kprev

\* line 175: for b in data starts at the first byte in every attempt; kprev
\* is the position the attempt before got to
data_start(kprev) == 1

\* lines 153-160
write_entry ==
    /\ op = "write" /\ tpc = "entry"
    /\ retry_cnt' = 0 /\ s_break' = FALSE
    /\ write_loop(0)
    /\ UNCHANGED <<cfgVars, peerVars, bitVars, byteVars, byteLog, argVars,
                   k, rdata, nAddr, nAddrAck, nData, nDelay, succeeded, rxlog, ackLog,
                   txlog, nNack>>

\* lines 160-161: send_start returned, send the address byte
write_addr ==
    /\ op = "write" /\ tpc = "w160" /\ cpc = "idle"
    /\ send_byte_entry(addr_byte(addr, 0))
    /\ nAddr' = Inc(nAddr)
    /\ txlog' = <<>> /\ succeeded' = FALSE
    /\ tpc' = "w161"
    /\ UNCHANGED <<cfgVars, peerVars, argVars, ret, outcome, retry_cnt, s_break, k,
                   rdata, nAddrAck, nData, nDelay, rxlog, ackLog, nNack>>

\* lines 161-176: the acknowledge bit of the address byte
write_addr_ack ==
    /\ op = "write" /\ tpc = "w161" /\ ypc = "idle"
    /\ txlog' = Append(txlog, SentByte)
    /\ nNack' = IF yret = 1 THEN Inc(nNack) ELSE nNack
    /\ IF yret = 1
       THEN /\ IF Exhausted(retry_cnt)
               THEN /\ tpc' = "w166"
                    /\ below_idle
                    /\ UNCHANGED retry_cnt
               ELSE /\ retry_cnt' = retry_cnt + 1
                    /\ stop_only
                    /\ tpc' = "w171"
            /\ UNCHANGED <<ret, outcome, k, nAddrAck, nData, succeeded>>
       ELSE /\ nAddrAck' = Inc(nAddrAck)
            /\ IF data = <<>>
               THEN /\ succeeded' = TRUE
                    /\ write_tail(s_break, retry_cnt)
                    /\ UNCHANGED <<bitVars, byteVars, byteLog, k, nData>>
               ELSE /\ k' = data_start(k)
                    /\ send_byte_entry(data[data_start(k)])
                    /\ nData' = Inc(nData)
                    /\ tpc' = "w176"
                    /\ UNCHANGED <<ret, outcome, succeeded>>
            /\ UNCHANGED retry_cnt
    /\ UNCHANGED <<cfgVars, peerVars, argVars, s_break, rdata, nAddr, nDelay, rxlog, ackLog>>

\* lines 166-167 and 181-182: Timer(1, 'ns') over, return
write_abort ==
    /\ op = "write" /\ tpc \in {"w166", "w181"}
    /\ Return(RetNone, "exhausted")
    /\ below_idle
    /\ UNCHANGED <<cfgVars, peerVars, argVars, txLocals>>

\* lines 171-172 and 186-187: send_stop returned, wait two bit periods
write_stopped ==
    /\ op = "write" /\ tpc \in {"w171", "w186"} /\ cpc = "idle"
    /\ tpc' = IF tpc = "w171" THEN "w172" ELSE "w187"
    /\ below_idle
    /\ UNCHANGED <<cfgVars, peerVars, argVars, ret, outcome, txLocals>>

\* lines 172-173 and 187-191, then 158-160: two bit periods over, s_break
\* is set, the loop goes on
write_retry ==
    /\ op = "write" /\ tpc \in {"w172", "w187"}
    /\ s_break' = TRUE
    /\ nDelay' = Inc(nDelay)
    /\ write_tail(TRUE, retry_cnt)
    /\ UNCHANGED <<cfgVars, peerVars, bitVars, byteVars, byteLog, argVars, retry_cnt,
                   k, rdata, nAddr, nAddrAck, nData, succeeded, rxlog, ackLog, txlog,
                   nNack>>

\* lines 175-191: the acknowledge bit of a data byte
write_data_ack ==
    /\ op = "write" /\ tpc = "w176" /\ ypc = "idle"
    /\ txlog' = Append(txlog, SentByte)
    /\ nNack' = IF yret = 1 THEN Inc(nNack) ELSE nNack
    /\ IF yret = 1
       THEN /\ IF Exhausted(retry_cnt)
               THEN /\ tpc' = "w181"
                    /\ below_idle
                    /\ UNCHANGED retry_cnt
               ELSE /\ retry_cnt' = retry_cnt + 1
                    /\ stop_only
                    /\ tpc' = "w186"
            /\ UNCHANGED <<ret, outcome, k, nData, succeeded>>
       ELSE /\ IF k < Len(data)
               THEN /\ k' = k + 1
                    /\ send_byte_entry(data[k + 1])
                    /\ nData' = Inc(nData)
                    /\ UNCHANGED <<tpc, ret, outcome, succeeded>>
               ELSE /\ succeeded' = TRUE
                    /\ write_tail(s_break, retry_cnt)
                    /\ UNCHANGED <<bitVars, byteVars, byteLog, k, nData>>
            /\ UNCHANGED retry_cnt
    /\ UNCHANGED <<cfgVars, peerVars, argVars, s_break, rdata, nAddr, nAddrAck, nDelay,
                   rxlog, ackLog>>

\* ------------------------------------------------------------- read
\* mutant: the loop body runs once, a NACKed attempt is not repeated
read_loop_once(rc) ==
    IF rc = 0
    THEN send_start_entry /\ tpc' = "r197" /\ UNCHANGED <<ret, outcome>>
    ELSE Return(RetNone, "fell") /\ UNCHANGED <<lineVars, condVars>>

\* lines 195-197: the loop test, then send_start
read_loop(rc) ==
    IF rc # retries + 1
    THEN send_start_entry /\ tpc' = "r197" /\ UNCHANGED <<ret, outcome>>
    ELSE Return(RetNone, "fell") /\ UNCHANGED <<lineVars, condVars>>

\* mutant: every received byte is acknowledged, the last one too
read_byte_ack_all(j) == recv_byte_entry(0)

\* recv_byte(k == count-1), line 213, for the byte of index j
read_byte(j) == recv_byte_entry(IF j = count - 1 THEN 1 ELSE 0)

\* lines 193-197
read_entry ==
    /\ op = "read" /\ tpc = "entry"
    /\ retry_cnt' = 0
    /\ read_loop(0)
    /\ UNCHANGED <<cfgVars, peerVars, bitVars, byteVars, byteLog, argVars, s_break,
                   k, rdata, nAddr, nAddrAck, nData, nDelay, succeeded, rxlog, ackLog,
                   txlog, nNack>>

\* lines 197-198: send_start returned, send the address byte
read_addr ==
    /\ op = "read" /\ tpc = "r197" /\ cpc = "idle"
    /\ send_byte_entry(addr_byte(addr, 1))
    /\ nAddr' = Inc(nAddr)
    /\ txlog' = <<>>
    /\ tpc' = "r198"
    /\ UNCHANGED <<cfgVars, peerVars, argVars, ret, outcome, retry_cnt, s_break, k,
                   rdata, nAddrAck, nData, nDelay, succeeded, rxlog, ackLog, nNack>>

\* lines 198-214: the acknowledge bit of the address byte
read_addr_ack ==
    /\ op = "read" /\ tpc = "r198" /\ ypc = "idle"
    /\ txlog' = Append(txlog, SentByte)
    /\ nNack' = IF yret = 1 THEN Inc(nNack) ELSE nNack
    /\ IF yret = 1
       THEN /\ IF Exhausted(retry_cnt)
               THEN /\ tpc' = "r203"
                    /\ below_idle
                    /\ UNCHANGED retry_cnt
               ELSE /\ retry_cnt' = retry_cnt + 1
                    /\ stop_only
                    /\ tpc' = "r208"
            /\ UNCHANGED <<ret, outcome, k, rdata, nAddrAck>>
       ELSE /\ nAddrAck' = Inc(nAddrAck)
            /\ rdata' = <<>>
            /\ k' = 0
            /\ IF count = 0
               THEN Return(RetData(<<>>), "done") /\ below_idle
               ELSE read_byte(0) /\ tpc' = "r213" /\ UNCHANGED <<ret, outcome>>
            /\ UNCHANGED retry_cnt
    /\ UNCHANGED <<cfgVars, peerVars, argVars, s_break, nAddr, nData, nDelay,
                   succeeded, rxlog, ackLog>>

\* lines 203-204: Timer(1, 'ns') over, return
read_abort ==
    /\ op = "read" /\ tpc = "r203"
    /\ Return(RetNone, "exhausted")
    /\ below_idle
    /\ UNCHANGED <<cfgVars, peerVars, argVars, txLocals>>

\* lines 208-209: send_stop returned, wait two bit periods
read_stopped ==
    /\ op = "read" /\ tpc = "r208" /\ cpc = "idle"
    /\ tpc' = "r209"
    /\ below_idle
    /\ UNCHANGED <<cfgVars, peerVars, argVars, ret, outcome, txLocals>>

\* lines 209, then 195-197: two bit periods over, the loop goes on
read_retry ==
    /\ op = "read" /\ tpc = "r209"
    /\ nDelay' = Inc(nDelay)
    /\ read_loop(retry_cnt)
    /\ UNCHANGED <<cfgVars, peerVars, bitVars, byteVars, byteLog, argVars, retry_cnt,
                   s_break, k, rdata, nAddr, nAddrAck, nData, succeeded, rxlog, ackLog,
                   txlog, nNack>>

\* lines 212-214: recv_byte returned; append, next byte or return data
read_data ==
    /\ op = "read" /\ tpc = "r213" /\ ypc = "idle"
    /\ rdata' = Append(rdata, yret)
    /\ rxlog' = Append(rxlog, BitsValue(samples))
    /\ ackLog' = Append(ackLog, hiLog[Len(hiLog)])
    /\ k' = k + 1
    /\ IF k + 1 < count
       THEN read_byte(k + 1) /\ UNCHANGED <<tpc, ret, outcome>>
       ELSE Return(RetData(rdata'), "done") /\ below_idle
    /\ UNCHANGED <<cfgVars, peerVars, argVars, retry_cnt, s_break, nAddr, nAddrAck,
                   nData, nDelay, succeeded, txlog, nNack>>

\* ------------------------------------------------------------- the peer
\* the peer pulls SCL low or lets go of it; a release that raises the line
\* under a task waiting for the edge is the *_rising action
PeerScl ==
    /\ Suspended
    /\ ~(AtEdge /\ SclCanRise)
    /\ peer_scl' = 1 - peer_scl
    /\ UNCHANGED <<cfgVars, lineVars, peer_sda, condVars, bitVars, byteVars, byteLog,
                   argVars, txVars>>

\* the peer changes SDA at any time
PeerSda ==
    /\ Suspended
    /\ peer_sda' = 1 - peer_sda
    /\ UNCHANGED <<cfgVars, lineVars, peer_scl, condVars, bitVars, byteVars, byteLog,
                   argVars, txVars>>

\* a peer that changes SDA only before the first bit of a byte it sends and
\* before its acknowledge bit: it sends the bytes 0x00 and 0xFF
PeerSdaByte ==
    /\ bfn = "recv_bit" /\ bpc = "half" /\ yi \in {0, 8}
    /\ peer_sda' = 1 - peer_sda
    /\ UNCHANGED <<cfgVars, lineVars, peer_scl, condVars, bitVars, byteVars, byteLog,
                   argVars, txVars>>

\* ------------------------------------------------------------- specification
\* <<sda_o given, scl_o given, sense lines wired AND>>
Configs ==
    {<<TRUE, TRUE, FALSE>>, <<FALSE, TRUE, FALSE>>, <<TRUE, TRUE, TRUE>>,
     <<FALSE, FALSE, TRUE>>}

\* lines 34-57: the driver after construction
InitDriver ==
    /\ \E c \in Configs : has_sda_o = c[1] /\ has_scl_o = c[2] /\ wired = c[3]
    /\ sda_o = 1 /\ scl_o = 1 /\ sda_line = 1 /\ scl_line = 1
    /\ peer_sda = 1 /\ peer_scl = 1
    /\ bus_active = FALSE
    /\ cpc = "idle" /\ nStart = 0 /\ nStop = 0 /\ stopped = FALSE /\ ev = <<>>
    /\ bfn = "none" /\ bpc = "idle" /\ bb = 0 /\ stretched = FALSE
    /\ yfn = "none" /\ ypc = "idle" /\ yi = 0 /\ yb = 0 /\ yack = 0 /\ yret = 0
    /\ samples = <<>> /\ hiLog = <<>>
    /\ op = "none" /\ tpc = "idle" /\ addr = 0 /\ data = <<>> /\ count = 0
    /\ retry_cnt = 0 /\ s_break = FALSE /\ k = 0 /\ rdata = <<>>
    /\ ret = RetNone /\ outcome = "none"
    /\ nAddr = 0 /\ nAddrAck = 0 /\ nData = 0 /\ nDelay = 0
    /\ succeeded = FALSE /\ rxlog = <<>> /\ ackLog = <<>> /\ txlog = <<>>
    /\ nNack = 0

Init == retries \in 0..MaxRetries /\ InitDriver

TxStep ==
    \/ write_entry
    \/ write_addr
    \/ write_addr_ack
    \/ write_abort
    \/ write_stopped
    \/ write_retry
    \/ write_data_ack
    \/ read_entry
    \/ read_addr
    \/ read_addr_ack
    \/ read_abort
    \/ read_stopped
    \/ read_retry
    \/ read_data

Driver ==
    \/ start_entry \/ stop_entry \/ cond_return
    \/ byte_entry \/ byte_return
    \/ ByteStep \/ BitStep \/ CondStep

\* test benches of the whole public interface, with few byte values
Next ==
    \/ CallStart \/ CallStop \/ CallWrite \/ CallRead
    \/ CallSendByte(DataBytes) \/ CallRecvByte
    \/ TestDone
    \/ TxStep
    \/ Driver
    \/ PeerScl \/ PeerSdaByte

Spec == Init /\ [][Next]_vars

\* test benches of single bytes, with every byte value and a peer that
\* changes SDA at any time
InitByte == retries = 0 /\ InitDriver

NextByte ==
    \/ CallStart \/ CallStop
    \/ CallSendByte(ByteVals) \/ CallRecvByte
    \/ TestDone
    \/ Driver
    \/ PeerScl \/ PeerSda

SpecByte == InitByte /\ [][NextByte]_vars

\* ------------------------------------------------------------- claims
\* the public coroutine of the last call returned (it did not raise)
Returned(o) == op = o /\ tpc = "idle" /\ outcome \in {"done", "exhausted", "fell"}

IsPrefix(a, b) == Len(a) <= Len(b) /\ SubSeq(b, 1, Len(a)) = a

\* C1: a call of write makes at most retries + 1 attempts (one START and
\* one address byte each), whatever the peer answers.
C1_WriteAttemptsBounded ==
    op = "write" => nStart <= retries + 1 /\ nAddr <= retries + 1

\* C2: in write, an attempt in which the address byte and every data byte
\* are ACKed is the last one: the call has returned when it is over.
C2_AckedAttemptIsLast ==
    ~(op = "write" /\ tpc # "idle" /\ succeeded)

\* C3: when write or read returns and every address byte was NACKed, there
\* were exactly retries + 1 STARTs and address bytes, exactly retries STOPs
\* and double-bit waits, no data byte, and nothing is returned.
C3_PersistentAddressNack ==
    /\ (op \in {"write", "read"} /\ nAddrAck = 0) => (nData = 0 /\ rxlog = <<>>)
    /\ ((Returned("write") \/ Returned("read")) /\ nAddrAck = 0) =>
          /\ nStart = retries + 1
          /\ nAddr = retries + 1
          /\ nStop = retries
          /\ nDelay = retries
          /\ ret = RetNone

C3_Witness ==
    /\ Returned("write") /\ nAddrAck = 0
    /\ retries = 2 /\ addr = 16 /\ data = <<255>>
    /\ nStart = 3 /\ nStop = 2

\* C4: when the address byte of read is ACKed, read returns exactly count
\* bytes, in the order received, and the master drives 0 after every byte
\* but the last and 1 after the last.
C4_ReadReturnsCountBytes ==
    (Returned("read") /\ nAddrAck > 0) =>
        /\ ret.kind = "data"
        /\ Len(ret.val) = count
        /\ ret.val = rxlog
        /\ ackLog = [j \in 1..count |-> IF j = count THEN 1 ELSE 0]

C4_Witness ==
    /\ Returned("read") /\ count = 2
    /\ ret = RetData(<<0, 255>>)
    /\ ackLog = <<0, 1>>

\* C5: read makes at most retries + 1 attempts, returns the data of the
\* first attempt whose address byte is ACKed, and returns nothing exactly
\* when all retries + 1 address bytes were NACKed.
C5_ReadRetry ==
    /\ op = "read" => /\ nStart <= retries + 1
                      /\ nAddr <= retries + 1
                      /\ nAddrAck <= 1
                      /\ (nAddrAck = 0 => rxlog = <<>>)
    /\ Returned("read") =>
          /\ (ret = RetNone) <=> (nAddrAck = 0 /\ nAddr = retries + 1)
          /\ ret.kind = "data" => (nAddrAck = 1 /\ ret.val = rxlog)

C5_Witness ==
    /\ Returned("read") /\ retries = 2 /\ count = 1
    /\ nAddr = 3 /\ nStop = 2
    /\ ret = RetData(<<255>>)

\* C6: when write returns after an attempt in which everything was ACKed,
\* the bus is active, the master drives SCL low and no STOP came after the
\* START of that attempt.
C6_SuccessLeavesBusActive ==
    (op = "write" /\ tpc = "idle" /\ outcome = "done") =>
        (bus_active /\ SclDrive = 0 /\ ~stopped)

C6_Witness ==
    /\ op = "write" /\ tpc = "idle" /\ outcome = "done"
    /\ data = <<1, 255>> /\ nData = 2

\* C7: send_byte(b) makes nine SCL high phases; SDA does not change while
\* SCL is high; the SDA levels of the first eight, first bit first, spell b;
\* in the ninth SDA is released and the bit sampled for it is returned.
C7_SendByteBits ==
    /\ (yfn = "send_byte" /\ ypc = "bit" /\ bpc \in {"rising", "bit_t"}) =>
          /\ Len(hiLog) = yi + 1
          /\ SdaDrive = hiLog[Len(hiLog)]
    /\ Returned("send_byte") =>
          /\ Len(hiLog) = 9
          /\ BitsValue(SubSeq(hiLog, 1, 8)) = data[1]
          /\ hiLog[9] = 1
          /\ Len(samples) = 1
          /\ ret = RetBit(samples[1])

C7_Witness ==
    /\ Returned("send_byte") /\ data = <<165>>
    /\ hiLog = <<1, 0, 1, 0, 0, 1, 0, 1, 1>>
    /\ ret = RetBit(0)

\* C8: stop() on a bus that is not active changes neither the SDA drive, nor
\* the SCL drive, nor bus_active, and waits for nothing.
C8_StopWhenInactive ==
    [][(op = "stop" /\ tpc # "idle" /\ ~bus_active) =>
          /\ SdaDrive' = SdaDrive
          /\ SclDrive' = SclDrive
          /\ bus_active' = bus_active
          /\ cpc' = "idle"
          /\ tpc' \in {"wait", "idle"}]_vars

C8_Witness ==
    Returned("stop") /\ ev = <<"inactive">> /\ ~bus_active

StdStart == <<"sda0", "half", "scl0", "half">>
RepStart == <<"sda1", "half", "scl1", "high", "half">>

\* C9: start() on an active bus releases SDA, waits half a bit, releases
\* SCL, waits until SCL is sensed high, waits half a bit, and then performs
\* the standard sequence (SDA low, half bit, SCL low, half bit); start() on
\* an inactive bus performs the standard sequence alone; the bus is active
\* afterwards.
C9_StartSequence ==
    (op = "start" /\ tpc # "entry") =>
        LET expected == IF ev[1] = "active"
                        THEN <<"active">> \o RepStart \o StdStart
                        ELSE <<"inactive">> \o StdStart
        IN  /\ IsPrefix(ev, expected)
            /\ tpc = "idle" => (ev = expected /\ bus_active)

C9_Witness ==
    /\ Returned("start") /\ bus_active
    /\ ev = <<"active">> \o RepStart \o StdStart

\* C10: in send_bit and recv_bit the bit-period wait of the SCL high phase
\* begins only in a state where SCL is sensed high.
C10_BitWaitOnlyWhenHigh ==
    [][(bpc # "bit_t" /\ bpc' = "bit_t") => SclSense' = 1]_vars

C10_Witness ==
    bpc = "bit_t" /\ stretched /\ SclSense = 1

\* C11: while the master is blocked in the wait of the clock-stretch check
\* (SCL was sensed low), its own SCL drive is released.
C11_StretchWaitReleasesScl ==
    bpc = "stretch" => SclDrive = 1

\* C12: the master writes only the separate drive line when one was given
\* and only the single line otherwise, and with no separate SCL drive line
\* no call of the driver ends in an error.
C12_SingleLineNoError ==
    /\ has_sda_o => sda_line = 1
    /\ ~has_sda_o => sda_o = 1
    /\ has_scl_o => scl_line = 1
    /\ ~has_scl_o => scl_o = 1
    /\ ~has_scl_o => outcome # "raised"

\* C13: in every attempt of write(a, data) the first byte on the line after
\* the START is 2a, in every attempt of read(a, count) it is 2a + 1, and an
\* attempt of write in which everything is ACKed has put 2a and then the
\* bytes of data, in order, on the line.
C13_AddressByteThenData ==
    /\ (op = "write" /\ txlog # <<>>) => txlog[1] = 2 * addr
    /\ (op = "read" /\ txlog # <<>>) => txlog = <<2 * addr + 1>>
    /\ (op = "write" /\ succeeded) =>
          txlog = <<2 * addr>> \o data

C13_Witness ==
    /\ op = "write" /\ tpc = "idle" /\ outcome = "done"
    /\ addr = 80 /\ data = <<1, 255>> /\ txlog = <<160, 1, 255>>

\* C14: in write, a data byte NACKed with retries left is followed by STOP
\* and the double-bit wait, then by START, the address byte and the data
\* from its first byte: what an attempt has put on the line is always the
\* beginning of 2a followed by data.
C14_DataNackRestartsWhole ==
    /\ [](op = "write" => IsPrefix(txlog, <<2 * addr>> \o data))
    /\ [](tpc = "w187" => (~bus_active /\ stopped /\ SclDrive = 1 /\ SdaDrive = 1))
    /\ [][(tpc = "w176" /\ tpc' # "w176") =>
            \/ tpc' = "w186" /\ yret = 1 /\ retry_cnt' = retry_cnt + 1 /\ cpc' = "p100"
            \/ tpc' = "w181" /\ yret = 1 /\ retry_cnt = retries
            \/ yret = 0]_vars
    /\ [][(tpc = "w186" /\ tpc' # "w186") => tpc' = "w187"]_vars
    /\ [][(tpc = "w187" /\ tpc' # "w187") =>
            (tpc' = "w160" /\ cpc' = "s89" /\ nStart' = Inc(nStart))]_vars

C14_Witness ==
    /\ op = "write" /\ retries = 2 /\ data = <<1, 255>>
    /\ retry_cnt = 1 /\ nAddr = 2 /\ nAddrAck = 2 /\ nData = 4
    /\ tpc = "w176" /\ ypc = "idle"
    /\ txlog = <<2 * addr, 1>>

\* C15 as claimed: every attempt of write and read that ends in a NACK, the
\* one that exhausts the retries too, takes one retry unit and is followed
\* by a completed stop() and a double-bit wait before the call retries or
\* returns.
C15_EveryNackedAttemptStops ==
    (op \in {"write", "read"} /\ (tpc \in {"w160", "r197"} \/ Returned(op))) =>
        /\ retry_cnt = nNack
        /\ nStop = nNack
        /\ nDelay = nNack
        /\ outcome = "exhausted" => ~bus_active

\* C15 amended: a NACKed attempt with retries left takes one retry unit
\* and is followed by a completed stop() (bus released, bus_active false)
\* and a double-bit wait before the retry; the attempt that exhausts the
\* retries takes no retry unit and is followed by neither: the call returns
\* with the bus still active and SCL driven low.
C15_NackedAttemptStopsUnlessExhausted ==
    /\ (op \in {"write", "read"} /\ tpc \in {"w160", "r197"}) =>
          (retry_cnt = nNack /\ nStop = nNack /\ nDelay = nNack)
    /\ tpc \in {"w172", "w187", "r209"} =>
          (~bus_active /\ stopped /\ SclDrive = 1 /\ SdaDrive = 1
           /\ retry_cnt = nNack /\ nStop = nNack)
    /\ (tpc \in {"w166", "w181", "r203"} \/ outcome = "exhausted") =>
          /\ nNack = retry_cnt + 1
          /\ retry_cnt = retries
          /\ nStop = retries /\ nDelay = retries
          /\ bus_active /\ ~stopped /\ SclDrive = 0

C15_Witness ==
    /\ Returned("read") /\ outcome = "exhausted" /\ retries = 2
    /\ nNack = 3 /\ nStop = 2 /\ nDelay = 2 /\ bus_active

\* C16: the master changes its SDA drive while its own SCL drive is released
\* only in the SDA-falling step of start() and in the SDA-rising step of
\* stop(); every other change of the SDA drive is made with SCL driven low.
C16_SdaChangesOnlyWhenSclLow ==
    [][(SdaDrive' # SdaDrive /\ SclDrive = 1) =>
          \/ cpc # "s89" /\ cpc' = "s89" /\ SdaDrive' = 0
          \/ cpc = "p104" /\ cpc' = "p106" /\ SdaDrive' = 1]_vars

C16_Witness ==
    /\ op = "write" /\ cpc = "p106" /\ stopped
    /\ SdaDrive = 1 /\ SclDrive = 1 /\ nData > 0

\* C17: a bit called for on an inactive bus begins with a complete START,
\* and the bus is active wherever the master has set SDA for a bit, waits
\* to raise SCL for it, holds SCL high or has driven it low again.
C17_NoBitWhileInactive ==
    /\ [](bpc \in BitTimers \cup BitEdges => bus_active)
    /\ [][(bpc # "start" /\ bpc' = "start") =>
            (~bus_active /\ cpc' = "s89" /\ nStart' = Inc(nStart))]_vars
    /\ [][(bpc = "start" /\ bpc' # "start") =>
            (bus_active /\ cpc = "idle" /\ SclDrive = 0 /\ bpc' = "half")]_vars

C17_Witness ==
    /\ op = "send_byte" /\ yi = 0 /\ bpc = "bit_t"
    /\ bus_active /\ nStart = 1 /\ ev = <<>>

\* C18: recv_byte(ack) takes eight bits with recv_bit and then sends ack
\* with send_bit; it returns the byte the eight samples spell, first sample
\* first; a sample is the SDA level sensed when the half-bit wait after the
\* release of SDA is over, with SCL still low, and nothing that happens on
\* SDA in the clock-stretch wait or the high phase changes it.
C18_RecvByteBits ==
    /\ []((yfn = "recv_byte" /\ ypc = "bit") =>
            /\ yi < 8 => (bfn = "recv_bit" /\ Len(samples) \in {yi, yi + 1})
            /\ yi = 8 => (bfn = "send_bit" /\ bb = yack /\ Len(samples) = 8))
    /\ [](Returned("recv_byte") =>
            /\ Len(samples) = 8
            /\ ret = RetData(<<BitsValue(samples)>>)
            /\ Len(hiLog) = 9
            /\ \A i \in 1..8 : hiLog[i] = 1
            /\ hiLog[9] = count)
    /\ [][(bfn = "recv_bit" /\ samples' # samples /\ samples' # <<>>) =>
            /\ bpc = "half" /\ SdaDrive = 1 /\ SclDrive = 0
            /\ samples' = Append(samples, SdaSense)
            /\ bb' = SdaSense]_vars
    /\ [][(bfn = "recv_bit" /\ bpc \in {"stretch", "rising", "bit_t", "low"}) =>
            (bb' = bb /\ (samples' = samples \/ samples' = <<>>))]_vars

C18_Witness ==
    /\ Returned("recv_byte") /\ count = 1
    /\ ret = RetData(<<165>>) /\ samples = <<1, 0, 1, 0, 0, 1, 0, 1>>
    /\ hiLog[9] = 1 /\ peer_sda = 0

\* C19: on a bus whose sensed SCL level is the AND of the master's and the
\* peer's drive, the master never waits in send_bit or recv_bit for a rising
\* edge of SCL that its own low drive prevents: once the peer lets go of
\* SCL the edge comes and the bit completes.
C19_NeverBlockedByOwnDrive ==
    (wired /\ bus_active /\ bpc \in BitEdges) => SenseOf(has_scl_o, SclDrive, 1) = 1

\* C20: for a driver with separate SDA and SCL drive lines, after
\* construction and whenever start, stop, write or read has returned,
\* bus_active is false exactly when the SCL drive is released, and the SDA
\* drive is released when bus_active is false; bus_active changes only in
\* the last step of send_start and of send_stop.
C20_BusActiveMatchesScl ==
    /\ []((has_sda_o /\ has_scl_o /\ tpc = "idle"
           /\ op \in {"none", "start", "stop", "write", "read"}) =>
            /\ ~bus_active <=> SclDrive = 1
            /\ ~bus_active => SdaDrive = 1)
    /\ [][bus_active' # bus_active =>
            \/ cpc = "s91" /\ cpc' = "idle" /\ bus_active'
            \/ cpc = "p106" /\ cpc' = "idle" /\ ~bus_active']_vars

C20_Witness ==
    /\ Returned("write") /\ outcome = "exhausted" /\ has_sda_o /\ has_scl_o
    /\ retries = 1 /\ nStop = 1 /\ bus_active /\ SclDrive = 0

====
